---- MODULE Spec2Model ----
(***************************************************************************)
(* Model of the CyberRisk Advisor backend (src/main.py): the POST          *)
(* /analyze_logs handler, its call to the external AGI completion service, *)
(* and the lenient JSON recovery and defaulting that shape the reply.      *)
(*                                                                         *)
(* Text is modelled character by character: a Python str is a sequence of  *)
(* one-character strings, so that strip(), replace("json", "", 1) and      *)
(* json.loads() are computed on the characters as the code computes them.  *)
(***************************************************************************)
EXTENDS Integers, Sequences, FiniteSets, TLC

(***************************************************************************)
(* Characters and Python str operations                                    *)
(***************************************************************************)

\* Characters str.strip() removes and json.loads() skips between tokens.
Whitespace == {" ", "\n"}

\* The backtick character (U+0060), which a TLA+ string cannot hold.
Backtick == "BACKTICK"

Digits == <<"0", "1", "2", "3", "4", "5", "6", "7", "8", "9">>

DigitChars == {Digits[k] : k \in 1..10}

DigitVal(c) == (CHOOSE k \in 1..10 : Digits[k] = c) - 1

\* s[i], or the empty string past either end of s.
At(s, i) == IF i \in 1..Len(s) THEN s[i] ELSE ""

\* str.strip(chars): drop the leading and trailing characters that are in chars.
StripChars(s, chars) ==
    LET Kept(keep) ==
            IF keep = {} THEN <<>>
            ELSE SubSeq(s, CHOOSE k \in keep : \A m \in keep : k <= m,
                           CHOOSE k \in keep : \A m \in keep : k >= m)
    IN  Kept({k \in 1..Len(s) : s[k] \notin chars})

\* raw_response.strip()
strip(s) == StripChars(s, Whitespace)

\* .strip(Backtick)
strip_backticks(s) == StripChars(s, {Backtick})

\* The positions at which old occurs in s.
Occurrences(s, old) ==
    {k \in 1..(Len(s) - Len(old) + 1) : SubSeq(s, k, k + Len(old) - 1) = old}

\* str.replace(old, "", 1): remove the first occurrence of old, if there is one.
replace_first(s, old) ==
    LET Cut(k) == SubSeq(s, 1, k - 1) \o SubSeq(s, k + Len(old), Len(s))
        First(occ) ==
            IF occ = {} THEN s ELSE Cut(CHOOSE p \in occ : \A q \in occ : p <= q)
    IN  First(Occurrences(s, old))

(***************************************************************************)
(* Python values, as json.loads() builds them                              *)
(***************************************************************************)

PyStr(s) == [t |-> "str", s |-> s]

PyInt(n) == [t |-> "int", n |-> n]

\* A float with the value mant / 10^scale, scale >= 1, without needless
\* trailing zeros, so that equal floats are equal records.
RECURSIVE NormFloat(_, _)
NormFloat(mant, scale) ==
    IF scale > 1 /\ mant % 10 = 0 THEN NormFloat(mant \div 10, scale - 1)
    ELSE [t |-> "float", mant |-> mant, scale |-> scale]

PyFloat(mant, scale) == NormFloat(mant, scale)

PyBool(b) == [t |-> "bool", b |-> b]

PyNone == [t |-> "None"]

PyList(items) == [t |-> "list", items |-> items]

\* A dict is a function from its keys (strings) to values.
PyDict(d) == [t |-> "dict", d |-> d]

EmptyDict == [k \in {} |-> PyNone]

\* d[key] = value: a repeated key keeps the last value.
DictSet(d, key, value) ==
    [k \in (DOMAIN d) \cup {key} |-> IF k = key THEN value ELSE d[k]]

(***************************************************************************)
(* json.loads(): a recursive-descent parser over the characters.  It       *)
(* covers objects, arrays, strings, non-negative decimal numbers and the   *)
(* literals null, true and false; the replies of the model contain no      *)
(* backslash escape, exponent, sign, NaN or Infinity.                      *)
(***************************************************************************)

Fail == [ok |-> FALSE, v |-> PyNone, i |-> 0]

Ok(v, i) == [ok |-> TRUE, v |-> v, i |-> i]

\* The first position at or after i that holds no whitespace (Len(s)+1 at the end).
SkipWs(s, i) ==
    CHOOSE j \in i..(Len(s) + 1) :
        /\ At(s, j) \notin Whitespace
        /\ \A k \in i..(j - 1) : s[k] \in Whitespace

\* The end of the run of digits that starts at i (i - 1 when there is none).
DigitsEnd(s, i) ==
    CHOOSE j \in (i - 1)..Len(s) :
        /\ At(s, j + 1) \notin DigitChars
        /\ \A k \in i..j : s[k] \in DigitChars

RECURSIVE DigitsValue(_, _, _, _)
DigitsValue(s, i, j, acc) ==
    IF i > j THEN acc ELSE DigitsValue(s, i + 1, j, acc * 10 + DigitVal(s[i]))

RECURSIVE Pow10(_)
Pow10(n) == IF n = 0 THEN 1 ELSE 10 * Pow10(n - 1)

\* A string: s[i] is the opening quote.  A raw newline inside a string is a
\* control character, which json.loads() rejects.
ParseString(s, i) ==
    LET Closed(j) ==
            IF j = 0 \/ \E k \in (i + 1)..(j - 1) : s[k] = "\n" THEN Fail
            ELSE Ok(SubSeq(s, i + 1, j - 1), j + 1)
    IN  Closed(CHOOSE j \in ((i + 1)..Len(s)) \cup {0} :
                   IF j = 0 THEN \A k \in (i + 1)..Len(s) : s[k] # "\""
                   ELSE s[j] = "\"" /\ \A k \in (i + 1)..(j - 1) : s[k] # "\"")

\* A number: s[i] is a digit.  The integer part is "0" or starts with 1-9;
\* a fraction is "." followed by at least one digit.
ParseNumber(s, i) ==
    LET Number(ie, fe) ==
            IF fe = ie THEN Ok(PyInt(DigitsValue(s, i, ie, 0)), ie + 1)
            ELSE Ok(PyFloat(DigitsValue(s, i, ie, 0) * Pow10(fe - ie - 1)
                            + DigitsValue(s, ie + 2, fe, 0), fe - ie - 1), fe + 1)
        Fraction(ie) ==
            Number(ie, IF At(s, ie + 1) = "." /\ At(s, ie + 2) \in DigitChars
                       THEN DigitsEnd(s, ie + 2) ELSE ie)
    IN  Fraction(IF s[i] = "0" THEN i ELSE DigitsEnd(s, i))

Lit_null == <<"n", "u", "l", "l">>

Lit_true == <<"t", "r", "u", "e">>

Lit_false == <<"f", "a", "l", "s", "e">>

StartsAt(s, i, lit) ==
    i + Len(lit) - 1 <= Len(s) /\ SubSeq(s, i, i + Len(lit) - 1) = lit

RECURSIVE ParseValue(_, _)
RECURSIVE ParseMembers(_, _, _)
RECURSIVE ParseElements(_, _, _)

\* The members of an object, from the first key at i; acc is the dict so far.
ParseMembers(s, i, acc) ==
    LET Rest(next, e) ==
            IF At(s, e) = "}" THEN Ok(PyDict(next), e + 1)
            ELSE IF At(s, e) = "," THEN ParseMembers(s, SkipWs(s, e + 1), next)
            ELSE Fail
        Member(key, val) ==
            IF ~val.ok THEN Fail
            ELSE Rest(DictSet(acc, key, val.v), SkipWs(s, val.i))
        Colon(key, c) ==
            IF At(s, c) # ":" THEN Fail
            ELSE Member(key, ParseValue(s, SkipWs(s, c + 1)))
        Key(key) == IF ~key.ok THEN Fail ELSE Colon(key.v, SkipWs(s, key.i))
    IN  IF At(s, i) # "\"" THEN Fail ELSE Key(ParseString(s, i))

\* The elements of an array, from the first value at i; acc is the list so far.
ParseElements(s, i, acc) ==
    LET Rest(next, e) ==
            IF At(s, e) = "]" THEN Ok(PyList(next), e + 1)
            ELSE IF At(s, e) = "," THEN ParseElements(s, SkipWs(s, e + 1), next)
            ELSE Fail
        Element(val) ==
            IF ~val.ok THEN Fail ELSE Rest(Append(acc, val.v), SkipWs(s, val.i))
    IN  Element(ParseValue(s, i))

ParseValue(s, i) ==
    LET String(str) == IF str.ok THEN Ok(PyStr(str.v), str.i) ELSE Fail
        Object(j) ==
            IF At(s, j) = "}" THEN Ok(PyDict(EmptyDict), j + 1)
            ELSE ParseMembers(s, j, EmptyDict)
        Array(j) ==
            IF At(s, j) = "]" THEN Ok(PyList(<<>>), j + 1)
            ELSE ParseElements(s, j, <<>>)
        Value(c) ==
            IF c = "\"" THEN String(ParseString(s, i))
            ELSE IF c = "{" THEN Object(SkipWs(s, i + 1))
            ELSE IF c = "[" THEN Array(SkipWs(s, i + 1))
            ELSE IF c \in DigitChars THEN ParseNumber(s, i)
            ELSE IF StartsAt(s, i, Lit_null) THEN Ok(PyNone, i + 4)
            ELSE IF StartsAt(s, i, Lit_true) THEN Ok(PyBool(TRUE), i + 4)
            ELSE IF StartsAt(s, i, Lit_false) THEN Ok(PyBool(FALSE), i + 5)
            ELSE Fail
    IN  Value(At(s, i))

\* json.loads(s): one value between optional whitespace and nothing else;
\* ok = FALSE stands for json.JSONDecodeError.
json_loads(s) ==
    LET Whole(val) == IF val.ok /\ SkipWs(s, val.i) = Len(s) + 1 THEN val ELSE Fail
    IN  Whole(ParseValue(s, SkipWs(s, 1)))

(***************************************************************************)
(* The strings of the handler                                              *)
(***************************************************************************)

K_overall_risk_score ==
    <<"o", "v", "e", "r", "a", "l", "l", "_", "r", "i", "s", "k", "_", "s", "c", "o", "r", "e">>

K_summary ==
    <<"s", "u", "m", "m", "a", "r", "y">>

K_detections ==
    <<"d", "e", "t", "e", "c", "t", "i", "o", "n", "s">>

K_recommended_actions ==
    <<"r", "e", "c", "o", "m", "m", "e", "n", "d", "e", "d", "_", "a", "c", "t", "i", "o", "n", "s">>

K_queries_to_run ==
    <<"q", "u", "e", "r", "i", "e", "s", "_", "t", "o", "_", "r", "u", "n">>

K_title ==
    <<"t", "i", "t", "l", "e">>

K_description ==
    <<"d", "e", "s", "c", "r", "i", "p", "t", "i", "o", "n">>

K_severity ==
    <<"s", "e", "v", "e", "r", "i", "t", "y">>

K_indicators ==
    <<"i", "n", "d", "i", "c", "a", "t", "o", "r", "s">>

\* The literal the fallback removes: .replace("json", "", 1)
S_json == <<"j", "s", "o", "n">>

\* Another default severity.
S_Low == <<"L", "o", "w">>

\* The default severity of a detection.
S_Medium == <<"M", "e", "d", "i", "u", "m">>

(***************************************************************************)
(* Python semantics of the handler's expressions                           *)
(***************************************************************************)

\* d.get(key, default) on a dict.
get(d, key, default) == IF key \in DOMAIN d.d THEN d.d[key] ELSE default

RECURSIVE ToDigits(_)
ToDigits(n) ==
    IF n < 10 THEN <<Digits[n + 1]>>
    ELSE Append(ToDigits(n \div 10), Digits[(n % 10) + 1])

RECURSIVE PadLeft(_, _)
PadLeft(ds, width) == IF Len(ds) >= width THEN ds ELSE PadLeft(<<"0">> \o ds, width)

\* str(v) of an int, a float or a bool.
py_str(v) ==
    IF v.t = "int" THEN ToDigits(v.n)
    ELSE IF v.t = "float"
         THEN ToDigits(v.mant \div Pow10(v.scale)) \o <<".">>
              \o PadLeft(ToDigits(v.mant % Pow10(v.scale)), v.scale)
         ELSE IF v.b THEN <<"T", "r", "u", "e">> ELSE <<"F", "a", "l", "s", "e">>

RECURSIVE SetToSeq(_)
SetToSeq(S) ==
    IF S = {} THEN <<>>
    ELSE LET x == CHOOSE y \in S : TRUE IN <<x>> \o SetToSeq(S \ {x})

\* What `for d in value` iterates over; ok = FALSE stands for the TypeError
\* of a value that is not iterable.  A str yields its characters and a dict
\* its keys (all of them strings, so their order decides nothing here).
Iterate(v) ==
    IF v.t = "list" THEN [ok |-> TRUE, items |-> v.items]
    ELSE IF v.t = "str"
         THEN [ok |-> TRUE, items |-> [k \in 1..Len(v.s) |-> PyStr(<<v.s[k]>>)]]
    ELSE IF v.t = "dict"
         THEN [ok |-> TRUE, items |-> [k \in 1..Cardinality(DOMAIN v.d) |->
                                        PyStr(SetToSeq(DOMAIN v.d)[k])]]
    ELSE [ok |-> FALSE, items |-> <<>>]

(***************************************************************************)
(* pydantic validation of the fields of Detection and LogAnalysisResponse. *)
(* ok = FALSE stands for pydantic's ValidationError.  `major` is the major *)
(* version of the installed pydantic, which the repository does not pin:   *)
(* version 1 coerces a number given for a str field with str(), version 2  *)
(* rejects it.                                                             *)
(***************************************************************************)

Invalid == [ok |-> FALSE, v |-> PyNone]

Valid(v) == [ok |-> TRUE, v |-> v]

\* A str field that takes whatever it is given.
ValidateStrAny(v, major) == Valid(v)

\* A field declared `str`.
ValidateStr(v, major) ==
    IF v.t = "str" THEN Valid(v)
    ELSE IF v.t \in {"int", "float", "bool"} /\ major = 1 THEN Valid(PyStr(py_str(v)))
    ELSE Invalid

\* float(s) of a str: digits with an optional fraction, between optional
\* whitespace; ok = FALSE stands for ValueError.
py_float(str) ==
    LET Float(s, ie, fe) ==
            IF ie = 0 THEN Invalid
            ELSE IF ie = Len(s) \/ (fe = Len(s) /\ fe = ie + 1)
                 THEN Valid(PyFloat(DigitsValue(s, 1, ie, 0) * 10, 1))
            ELSE IF fe = Len(s)
                 THEN Valid(PyFloat(DigitsValue(s, 1, ie, 0) * Pow10(fe - ie - 1)
                                    + DigitsValue(s, ie + 2, fe, 0), fe - ie - 1))
            ELSE Invalid
        Fraction(s, ie) ==
            Float(s, ie, IF At(s, ie + 1) = "." THEN DigitsEnd(s, ie + 2) ELSE 0)
        Stripped(s) == Fraction(s, DigitsEnd(s, 1))
    IN  Stripped(strip(str))

\* A field declared `float`: a float, an int, a bool or a numeric string.
ValidateFloat(v) ==
    IF v.t = "float" THEN Valid(v)
    ELSE IF v.t = "int" THEN Valid(PyFloat(v.n * 10, 1))
    ELSE IF v.t = "bool" THEN Valid(PyFloat(IF v.b THEN 10 ELSE 0, 1))
    ELSE IF v.t = "str" THEN py_float(v.s)
    ELSE Invalid

\* A field declared `List[str]`: a list whose elements all validate as str.
ValidateListStr(v, major) ==
    LET All(vs) ==
            IF \A k \in DOMAIN vs : vs[k].ok
            THEN Valid(PyList([k \in DOMAIN vs |-> vs[k].v]))
            ELSE Invalid
    IN  IF v.t # "list" THEN Invalid
        ELSE All([k \in 1..Len(v.items) |-> ValidateStr(v.items[k], major)])

(***************************************************************************)
(* analyze_logs after the reply: recovery, defaulting, response            *)
(***************************************************************************)

\* A cleanup that strips the fence and leaves the language tag.
cleaned_keeps_tag(raw_response) == strip(strip_backticks(strip(raw_response)))

\* cleaned = raw_response.strip().strip(Backtick); cleaned.replace("json", "", 1).strip()
cleaned(raw_response) ==
    strip(replace_first(strip_backticks(strip(raw_response)), S_json))

\* A cleanup applied before the first json.loads, not only after it failed.
parse_response_always_cleaned(raw_response) ==
    LET First(first) == [ok |-> first.ok, v |-> first.v, attempts |-> 1]
    IN  First(json_loads(cleaned(raw_response)))

\* A further fallback: an empty object when the second json.loads fails too.
parse_response_best_effort(raw_response) ==
    LET Second(second) ==
            IF second.ok THEN [ok |-> TRUE, v |-> second.v, attempts |-> 2]
            ELSE [ok |-> TRUE, v |-> PyDict(EmptyDict), attempts |-> 2]
        First(first) ==
            IF first.ok THEN [ok |-> TRUE, v |-> first.v, attempts |-> 1]
            ELSE Second(json_loads(cleaned(raw_response)))
    IN  First(json_loads(raw_response))

\* The try/except around json.loads: the parsed value and the number of
\* json.loads calls made; ok = FALSE stands for the JSONDecodeError of the
\* second call, which nothing catches.
parse_response(raw_response) ==
    LET Second(second) == [ok |-> second.ok, v |-> second.v, attempts |-> 2]
        First(first) ==
            IF first.ok THEN [ok |-> TRUE, v |-> first.v, attempts |-> 1]
            ELSE Second(json_loads(cleaned(raw_response)))
    IN  First(json_loads(raw_response))

\* Detection(title=d.get("title", ""), ...): ok = FALSE stands for the
\* AttributeError of a d that is no dict or for pydantic's ValidationError.
MakeDetection(d, major) ==
    LET Build(title, description, severity, indicators) ==
            IF title.ok /\ description.ok /\ severity.ok /\ indicators.ok
            THEN Valid([title |-> title.v, description |-> description.v,
                        severity |-> severity.v, indicators |-> indicators.v])
            ELSE Invalid
    IN  IF d.t # "dict" THEN Invalid
        ELSE Build(ValidateStr(get(d, K_title, PyStr(<<>>)), major),
                   ValidateStr(get(d, K_description, PyStr(<<>>)), major),
                   ValidateStr(get(d, K_severity, PyStr(S_Medium)), major),
                   ValidateListStr(get(d, K_indicators, PyList(<<>>)), major))

\* detections = [Detection(...) for d in result.get("detections", [])]
MakeDetections(result, major) ==
    LET All(ds) ==
            IF \A k \in DOMAIN ds : ds[k].ok
            THEN Valid(PyList([k \in DOMAIN ds |-> ds[k].v]))
            ELSE Invalid
        Each(it) ==
            IF ~it.ok THEN Invalid
            ELSE All([k \in 1..Len(it.items) |-> MakeDetection(it.items[k], major)])
    IN  IF result.t # "dict" THEN Invalid
        ELSE Each(Iterate(get(result, K_detections, PyList(<<>>))))

\* return LogAnalysisResponse(...): ok = FALSE stands for any exception the
\* construction raises.
MakeResponse(result, major) ==
    LET Build(overall_risk_score, summary, detections, recommended_actions,
              queries_to_run) ==
            IF overall_risk_score.ok /\ summary.ok /\ recommended_actions.ok
               /\ queries_to_run.ok
            THEN Valid([overall_risk_score  |-> overall_risk_score.v,
                        summary             |-> summary.v,
                        detections          |-> detections.v,
                        recommended_actions |-> recommended_actions.v,
                        queries_to_run      |-> queries_to_run.v])
            ELSE Invalid
        Fields(detections) ==
            IF ~detections.ok THEN Invalid
            ELSE Build(ValidateFloat(get(result, K_overall_risk_score, PyFloat(0, 1))),
                       ValidateStr(get(result, K_summary, PyStr(<<>>)), major),
                       detections,
                       ValidateListStr(get(result, K_recommended_actions, PyList(<<>>)),
                                       major),
                       ValidateListStr(get(result, K_queries_to_run, PyList(<<>>)),
                                       major))
    IN  Fields(MakeDetections(result, major))

(***************************************************************************)
(* HTTP outcomes of a request                                              *)
(***************************************************************************)

NoBody == [none |-> TRUE]

NoOutcome == [status |-> 0, detail |-> <<>>, body |-> NoBody]

\* 200 with the LogAnalysisResponse as the body.
Success(body) == [status |-> 200, detail |-> <<>>, body |-> body]

\* An error that always answers 500, whatever the status given.
HTTPErrorAlways500(status_code, detail) ==
    [status |-> 500, detail |-> detail, body |-> NoBody]

\* raise HTTPException(status_code, detail)
HTTPError(status_code, detail) ==
    [status |-> status_code, detail |-> detail, body |-> NoBody]

\* An exception nothing catches: the server answers 500.
InternalError == HTTPError(500, <<"Internal Server Error">>)

\* FastAPI rejects a body that is no LogAnalysisRequest before the handler runs.
UnprocessableEntity == HTTPError(422, <<"value is not a valid LogAnalysisRequest">>)

\* The lines of analyze_logs after `await call_agi_agent(...)` returns content.
\* A content that is no str makes json.loads raise TypeError at the first call.
handle_content(content, major) ==
    LET Respond(response, n) ==
            [outcome  |-> IF response.ok THEN Success(response.v) ELSE InternalError,
             attempts |-> n]
        Parsed(parsed) ==
            IF ~parsed.ok THEN [outcome |-> InternalError, attempts |-> parsed.attempts]
            ELSE Respond(MakeResponse(parsed.v, major), parsed.attempts)
    IN  IF content.t # "str" THEN [outcome |-> InternalError, attempts |-> 1]
        ELSE Parsed(parse_response(content.s))

(***************************************************************************)
(* The service: configuration, requests in flight, the external call       *)
(***************************************************************************)

\* The number of /analyze_logs requests the model follows.
NumRequests == 2

Requests == 1..NumRequests

VARIABLES
    AGI_API_KEY,   \* os.getenv("AGI_API_KEY"): None, or a str
    AGI_BASE_URL,  \* os.getenv("AGI_BASE_URL", "https://api.agi.tech")
    pydantic,      \* the major version of the installed pydantic
    pc,            \* per request: "idle", "awaiting" (suspended at client.post), "done"
    req,           \* per request: the body it came with
    sent,          \* per request: the outbound calls issued for it, in order
    reply,         \* per request: what the external call came back with
    attempts,      \* per request: the json.loads calls made on the content
    outcome,       \* per request: the HTTP response given to the caller
    console        \* what print() wrote, in order

vars == <<AGI_API_KEY, AGI_BASE_URL, pydantic, pc, req, sent, reply, attempts,
          outcome, console>>

config == <<AGI_API_KEY, AGI_BASE_URL, pydantic>>

\* The text of the system prompt, which no request changes.
system_prompt == "You are a senior security analyst and threat hunter ..."

NoRequest == [logs |-> PyNone, environment |-> PyNone, question |-> PyNone]

NoReply == [kind |-> "none", status |-> 0, text |-> "", content |-> PyNone]

\* A check for None alone, which lets the empty credential through.
FalsyNoneOnly(v) == v = PyNone

\* `x or default`, `not x`: None and the empty str are falsy.
Falsy(v) == v = PyNone \/ v = PyStr(<<>>)

or_default(v, default) == IF Falsy(v) THEN default ELSE v.s

\* The f-string of the user prompt: its three interpolated parts.
user_prompt(r) ==
    [environment |-> or_default(r.environment, <<"N", "o", "t", " ", "s", "p", "e", "c", "i", "f", "i", "e", "d">>),
     question    |-> or_default(r.question,
                        <<"G", "e", "n", "e", "r", "a", "l", " ", "t", "h", "r", "e", "a", "t", " ", "h", "u", "n", "t", "i", "n", "g", " ", "a", "n", "d", " ", "i", "n", "c", "i", "d", "e", "n", "t", " ", "t", "r", "i", "a", "g", "e", ".">>),
     logs        |-> r.logs.s]

\* The request client.post() sends.
Call(r) ==
    [url           |-> [base |-> AGI_BASE_URL, path |-> "/v1/chat/completions"],
     authorization |-> [scheme |-> "Bearer", token |-> AGI_API_KEY.s],
     model         |-> "agi-latest",
     messages      |-> <<[role |-> "system", content |-> system_prompt],
                         [role |-> "user", content |-> user_prompt(r)]>>,
     temperature   |-> "0.2"]

\* LogAnalysisRequest: logs is a required str.
ValidRequest(r) == r.logs.t = "str"

ConfigErrorDetail ==
    <<"AGI_API_KEY is not configured on the server. Set it in backend/.env">>

Complete(r, rep, out, n) ==
    /\ pc' = [pc EXCEPT ![r] = "done"]
    /\ reply' = [reply EXCEPT ![r] = rep]
    /\ outcome' = [outcome EXCEPT ![r] = out]
    /\ attempts' = [attempts EXCEPT ![r] = n]

\* A body that fails validation: FastAPI answers 422, the handler never runs.
RejectBody(r, body) ==
    /\ pc[r] = "idle"
    /\ ~ValidRequest(body)
    /\ req' = [req EXCEPT ![r] = body]
    /\ Complete(r, NoReply, UnprocessableEntity, 0)
    /\ UNCHANGED <<config, sent, console>>

\* call_agi_agent with no credential: HTTPException(500) before any call.
MissingKey(r, body) ==
    /\ pc[r] = "idle"
    /\ ValidRequest(body)
    /\ Falsy(AGI_API_KEY)
    /\ req' = [req EXCEPT ![r] = body]
    /\ Complete(r, NoReply, HTTPError(500, ConfigErrorDetail), 0)
    /\ UNCHANGED <<config, sent, console>>

\* analyze_logs up to `await client.post(...)`: the call is issued and the
\* request suspends.
Dispatch(r, body) ==
    /\ pc[r] = "idle"
    /\ ValidRequest(body)
    /\ ~Falsy(AGI_API_KEY)
    /\ req' = [req EXCEPT ![r] = body]
    /\ sent' = [sent EXCEPT ![r] = Append(@, Call(body))]
    /\ pc' = [pc EXCEPT ![r] = "awaiting"]
    /\ UNCHANGED <<config, reply, attempts, outcome, console>>

\* A handler that issues the call again when it times out.
TimeoutRetry(r) ==
    /\ pc[r] = "awaiting"
    /\ sent' = [sent EXCEPT ![r] = Append(@, Call(req[r]))]
    /\ UNCHANGED <<config, pc, req, reply, attempts, outcome, console>>

\* A timeout that closes a client shared by the requests in flight: every
\* request that awaits its reply fails with this one.
TimeoutClosesSharedClient(r) ==
    /\ pc[r] = "awaiting"
    /\ pc' = [q \in Requests |-> IF pc[q] = "awaiting" THEN "done" ELSE pc[q]]
    /\ reply' = [q \in Requests |->
                    IF pc[q] = "awaiting" THEN [NoReply EXCEPT !.kind = "timeout"]
                    ELSE reply[q]]
    /\ outcome' = [q \in Requests |->
                      IF pc[q] = "awaiting" THEN InternalError ELSE outcome[q]]
    /\ UNCHANGED <<config, req, sent, attempts, console>>

\* client.post raises (httpx.TimeoutException after 60 s, or a transport
\* error): nothing catches it.
Timeout(r) ==
    /\ pc[r] = "awaiting"
    /\ Complete(r, [NoReply EXCEPT !.kind = "timeout"], InternalError, 0)
    /\ UNCHANGED <<config, req, sent, console>>

\* The call completes with a non-success status: raise_for_status() raises,
\* the handler prints the debug lines and raises HTTPException.
StatusError(r, status_code, text) ==
    /\ pc[r] = "awaiting"
    /\ console' = Append(console, [banner          |-> "=== AGI API DEBUG ===",
                                   status_code     |-> status_code,
                                   response_body   |-> text,
                                   request_payload |-> sent[r][Len(sent[r])].messages])
    /\ Complete(r, [NoReply EXCEPT !.kind = "status", !.status = status_code,
                                 !.text = text],
              HTTPError(status_code, <<"AGI API error: ", text>>), 0)
    /\ UNCHANGED <<config, req, sent>>

\* A 200 whose body is no JSON envelope with choices[0].message.content:
\* resp.json() or the indexing raises.
BadEnvelope(r) ==
    /\ pc[r] = "awaiting"
    /\ Complete(r, [NoReply EXCEPT !.kind = "envelope", !.status = 200], InternalError, 0)
    /\ UNCHANGED <<config, req, sent, console>>

\* A 200 with content: the rest of analyze_logs runs to its end.
Content(r, content) ==
    LET Done(done) ==
            Complete(r, [NoReply EXCEPT !.kind = "content", !.status = 200,
                                        !.content = content],
                     done.outcome, done.attempts)
    IN  /\ pc[r] = "awaiting"
        /\ Done(handle_content(content, pydantic))
        /\ UNCHANGED <<config, req, sent, console>>

(***************************************************************************)
(* The replies of the external service.  The system prompt asks for a JSON *)
(* document of the response schema; the service may answer with that       *)
(* document, with a document that lacks keys or carries other types, with  *)
(* the document inside code-fence markup, or with text that is no JSON.    *)
(***************************************************************************)

\* The longest list of detections in a generated document.
MaxDetections == 1

\* The longest list of strings in a generated document.
MaxItems == 2

S_x == <<"x">>

\* A string value with backticks inside it.
S_ticks == <<Backtick, "x", Backtick>>

\* A key that the schema does not have.
K_json_note == <<"j", "s", "o", "n", "_", "n", "o", "t", "e">>

TopKeys == {K_overall_risk_score, K_summary, K_detections, K_recommended_actions,
            K_queries_to_run}

DetectionKeys == {K_title, K_description, K_severity, K_indicators}

\* The order in which a document's keys are written.
KeyOrder == <<K_overall_risk_score, K_summary, K_detections, K_recommended_actions,
              K_queries_to_run, K_title, K_description, K_severity, K_indicators,
              K_json_note>>

\* Whitespace between the tokens of a document: none, or a newline and a space.
Compact == <<>>

Pretty == <<"\n", " ">>

RECURSIVE Ser(_, _)
RECURSIVE SerItems(_, _)
RECURSIVE SerMembers(_, _, _)

\* The elements of a list, separated by commas.
SerItems(items, sp) ==
    IF items = <<>> THEN <<>>
    ELSE Ser(Head(items), sp)
         \o (IF Len(items) > 1 THEN <<",">> \o sp \o SerItems(Tail(items), sp) ELSE <<>>)

\* The members of a dict d with the keys ks, separated by commas.
SerMembers(d, ks, sp) ==
    IF ks = <<>> THEN <<>>
    ELSE <<"\"">> \o Head(ks) \o <<"\"", ":">> \o sp \o Ser(d[Head(ks)], sp)
         \o (IF Len(ks) > 1 THEN <<",">> \o sp \o SerMembers(d, Tail(ks), sp) ELSE <<>>)

\* The JSON text of a value.
Ser(v, sp) ==
    IF v.t = "str" THEN <<"\"">> \o v.s \o <<"\"">>
    ELSE IF v.t \in {"int", "float"} THEN py_str(v)
    ELSE IF v.t = "bool" THEN (IF v.b THEN Lit_true ELSE Lit_false)
    ELSE IF v.t = "None" THEN Lit_null
    ELSE IF v.t = "list"
         THEN IF v.items = <<>> THEN <<"[", "]">>
              ELSE <<"[">> \o sp \o SerItems(v.items, sp) \o sp \o <<"]">>
    ELSE IF v.d = EmptyDict THEN <<"{", "}">>
         ELSE <<"{">> \o sp
              \o SerMembers(v.d, SelectSeq(KeyOrder, LAMBDA k : k \in DOMAIN v.d), sp)
              \o sp \o <<"}">>

\* The ways a reply wraps the document.
Fence == <<Backtick, Backtick, Backtick>>

Wrap(w, text) ==
    CASE w = "plain"            -> text
      [] w = "padded"           -> <<"\n", " ">> \o text \o <<" ", "\n">>
      [] w = "fence_json"       -> Fence \o S_json \o <<"\n">> \o text \o <<"\n">> \o Fence
      [] w = "fence_json_tight" -> Fence \o S_json \o text \o Fence
      [] w = "fence_json_padded" ->
             <<" ">> \o Fence \o S_json \o <<"\n">> \o text \o <<"\n">> \o Fence \o <<"\n">>
      [] w = "fence"            -> Fence \o <<"\n">> \o text \o <<"\n">> \o Fence
      [] w = "fence_JSON"       ->
             Fence \o <<"J", "S", "O", "N", "\n">> \o text \o <<"\n">> \o Fence
      [] w = "prose"            ->
             <<"S", "e", "e", ":", "\n">> \o Fence \o S_json \o <<"\n">> \o text
             \o <<"\n">> \o Fence
      [] w = "trailing"         -> text \o <<"\n", "o", "k", ".">>

FenceJsonWraps == {"fence_json", "fence_json_tight", "fence_json_padded"}

Wraps == {"plain", "padded", "fence", "fence_JSON", "prose", "trailing"}
         \cup FenceJsonWraps

\* Lists of at most n strings.
StrLists(n) ==
    UNION {{PyList(l) : l \in [1..k -> {PyStr(S_x), PyStr(S_json)}]} : k \in 0..n}

\* The values of a document in which every key has the type of the schema.
BaseValue ==
    [k \in TopKeys \cup DetectionKeys |->
        CASE k = K_overall_risk_score  -> PyFloat(725, 1)
          [] k = K_summary             -> PyStr(S_x)
          [] k = K_detections          -> PyList(<<>>)
          [] k = K_recommended_actions -> PyList(<<PyStr(S_x)>>)
          [] k = K_queries_to_run      -> PyList(<<PyStr(S_x), PyStr(S_x)>>)
          [] k = K_title               -> PyStr(S_x)
          [] k = K_description         -> PyStr(S_x)
          [] k = K_severity            -> PyStr(<<"H", "i", "g", "h">>)
          [] k = K_indicators          -> PyList(<<PyStr(S_x)>>)]

\* A detection with the keys ks.
Detection(ks) == PyDict([k \in ks |-> BaseValue[k]])

FullDetection == Detection(DetectionKeys)

\* The document with every key of the schema, and one detection.
FullDoc ==
    PyDict([k \in TopKeys |->
               IF k = K_detections THEN PyList(<<FullDetection>>) ELSE BaseValue[k]])

\* A document with two of the keys of the schema.
ShortDoc ==
    PyDict([k \in {K_overall_risk_score, K_summary} |-> BaseValue[k]])

\* FullDoc with the value of key replaced.
With(key, value) == PyDict(DictSet(FullDoc.d, key, value))

\* FullDoc with its detection's value of key replaced.
WithDetection(key, value) ==
    With(K_detections, PyList(<<PyDict(DictSet(FullDetection.d, key, value))>>))

\* Documents that lack some of the top-level keys.
PartialDocs ==
    {PyDict([k \in ks |-> FullDoc.d[k]]) : ks \in SUBSET TopKeys}

\* A document with nothing but a detection that has no key.
SparseDoc == PyDict(DictSet(EmptyDict, K_detections, PyList(<<Detection({})>>)))

\* Documents whose detections lack some of their keys.
DetectionDocs ==
    UNION {{With(K_detections, PyList(l)) :
               l \in [1..n -> {Detection(ks) : ks \in SUBSET DetectionKeys}]} :
           n \in 0..MaxDetections}

\* Documents of the schema with other values, "json" and backticks among them.
ValueDocs ==
    {With(K_summary, PyStr(v)) : v \in {<<>>, S_json, S_ticks}}
    \cup {With(K_overall_risk_score, v) : v \in {PyInt(0), PyInt(100), PyFloat(5, 2)}}
    \cup {With(K_recommended_actions, v) : v \in StrLists(MaxItems)}
    \cup {With(K_queries_to_run, v) : v \in StrLists(MaxItems)}
    \cup {WithDetection(K_indicators, v) : v \in StrLists(MaxItems)}
    \cup {WithDetection(K_title, PyStr(S_json)), WithDetection(K_severity, PyStr(<<>>)),
          With(K_json_note, PyStr(S_x))}

\* Documents in which a key carries a value of another type than the schema's.
IllTypedDocs ==
    {With(K_overall_risk_score, v) :
        v \in {PyStr(S_x), PyStr(<<"7", ".", "5">>), PyNone, PyList(<<>>), PyBool(TRUE)}}
    \cup {With(K_summary, v) : v \in {PyInt(5), PyFloat(75, 1), PyNone, PyList(<<>>)}}
    \cup {With(K_detections, v) :
            v \in {PyInt(7), PyNone, PyStr(<<>>), PyStr(S_x), PyDict(EmptyDict),
                   FullDetection, PyList(<<PyInt(1)>>), PyList(<<PyStr(S_x)>>),
                   PyList(<<PyList(<<>>)>>)}}
    \cup {With(K_recommended_actions, v) :
            v \in {PyStr(S_x), PyNone, PyDict(EmptyDict), PyList(<<PyInt(1)>>),
                   PyList(<<PyStr(S_x), PyNone>>)}}
    \cup {With(K_queries_to_run, v) : v \in {PyInt(0), PyList(<<PyList(<<>>)>>)}}
    \cup {WithDetection(K_title, v) : v \in {PyInt(5), PyNone}}
    \cup {WithDetection(K_severity, v) : v \in {PyInt(3), PyList(<<>>)}}
    \cup {WithDetection(K_indicators, v) : v \in {PyStr(S_x), PyNone, PyList(<<PyInt(1)>>)}}

\* JSON that is no object.
NonObjects ==
    {PyList(<<>>), PyList(<<FullDoc>>), PyInt(7), PyStr(S_json), PyNone, PyBool(TRUE)}

Docs == PartialDocs \cup {SparseDoc} \cup DetectionDocs \cup ValueDocs \cup IllTypedDocs \cup NonObjects

\* The documents that are also sent wrapped.
WrappedDocs ==
    {FullDoc, PyDict(EmptyDict), With(K_summary, PyStr(S_json)),
     With(K_summary, PyStr(S_ticks)), With(K_json_note, PyStr(S_x)),
     WithDetection(K_title, PyStr(S_json)),
     With(K_recommended_actions, PyList(<<PyStr(S_json)>>)),
     With(K_summary, PyInt(5)), PyList(<<>>), PyStr(S_json)}

Payload(doc, wrap, sp) == [doc |-> doc, wrap |-> wrap, text |-> Wrap(wrap, Ser(doc, sp))]

\* Every reply that is a document, wrapped or not.
Payloads ==
    {Payload(d, "plain", Compact) : d \in Docs}
    \cup {Payload(d, w, sp) : d \in WrappedDocs, w \in Wraps, sp \in {Compact, Pretty}}

\* Replies that are no document at all: empty, prose, a bare tag, a
\* truncated document, an empty fence.
JunkTexts ==
    {<<>>, <<"n", "o">>, S_json, Fence \o S_json \o Fence,
     SubSeq(Ser(FullDoc, Compact), 1, 40),
     Fence \o S_json \o <<"\n">> \o SubSeq(Ser(FullDoc, Compact), 1, 40),
     <<"{", "\"", "s", "u", "m", "m", "a", "r", "y", "\"", ":", "}">>,
     <<"{", "\"", "x", "\"", ":", "\"", "\n", "\"", "}">>,
     <<"[", "1", ",", "]">>, <<"0", "7">>}

\* The contents of the replies of the parse specification.
Contents ==
    {PyStr(p.text) : p \in Payloads} \cup {PyStr(t) : t \in JunkTexts} \cup {PyNone}

\* The contents of the replies of the service specification.
ServiceContents ==
    {PyStr(Ser(ShortDoc, Compact)),
     PyStr(Wrap("fence_json", Ser(ShortDoc, Pretty))),
     PyStr(Ser(PyDict(DictSet(EmptyDict, K_summary, PyInt(5))), Compact)),
     PyStr(<<"n", "o">>)}

\* The non-success replies of the external service: status code and body text.
ErrorReplies ==
    {[status_code |-> 401, text |-> "{\"error\": \"invalid api key\"}"],
     [status_code |-> 503, text |-> ""]}

\* The bodies requests come with.
Bodies ==
    {[logs        |-> PyStr(<<"l", "o", "g">>),
      environment |-> PyStr(<<"A", "W", "S">>),
      question    |-> PyStr(<<"q", "?">>)],
     [logs |-> PyStr(<<>>), environment |-> PyStr(<<>>), question |-> PyNone],
     [logs |-> PyNone, environment |-> PyNone, question |-> PyNone]}

(***************************************************************************)
(* Specifications                                                          *)
(***************************************************************************)

Init ==
    /\ AGI_API_KEY \in {PyNone, PyStr(<<>>), PyStr(<<"k">>)}
    /\ AGI_BASE_URL = "https://api.agi.tech"
    /\ pydantic \in {1, 2}
    /\ pc = [r \in Requests |-> "idle"]
    /\ req = [r \in Requests |-> NoRequest]
    /\ sent = [r \in Requests |-> <<>>]
    /\ reply = [r \in Requests |-> NoReply]
    /\ attempts = [r \in Requests |-> 0]
    /\ outcome = [r \in Requests |-> NoOutcome]
    /\ console = <<>>

\* What can happen to request r, the content of a 200 reply drawn from contents.
Step(r, contents) ==
    \/ \E body \in Bodies : RejectBody(r, body)
    \/ \E body \in Bodies : MissingKey(r, body)
    \/ \E body \in Bodies : Dispatch(r, body)
    \/ Timeout(r)
    \/ \E e \in ErrorReplies : StatusError(r, e.status_code, e.text)
    \/ BadEnvelope(r)
    \/ \E content \in contents : Content(r, content)

\* The service: any number of requests in flight, in any interleaving.
Next == \E r \in Requests : Step(r, ServiceContents)

Spec == Init /\ [][Next]_vars

\* One request, and every reply content of the model.
NextParse == Step(1, Contents)

SpecParse == Init /\ [][NextParse]_vars

(***************************************************************************)
(* Properties                                                              *)
(***************************************************************************)

Done(r) == pc[r] = "done"

\* The handler ran for r: its body passed validation.
Handled(r) == pc[r] # "idle" /\ req[r].logs.t = "str"

\* C1: a request handled while AGI_API_KEY is unset or empty ends with the
\* 500 of the fixed configuration message, and no outbound call is made for it.
C1_NoKeyNoCall ==
    AGI_API_KEY \in {PyNone, PyStr(<<>>)} =>
        \A r \in Requests :
            /\ sent[r] = <<>>
            /\ Handled(r) =>
                   /\ Done(r)
                   /\ outcome[r].status = 500
                   /\ outcome[r].detail = ConfigErrorDetail
                   /\ outcome[r].body = NoBody
                   /\ reply[r] = NoReply

C1_Witness ==
    \E r \in Requests :
        AGI_API_KEY = PyStr(<<>>) /\ Handled(r) /\ Done(r) /\ outcome[r].status = 500

\* C2: a reply with the non-success status S and the body text B fails the
\* request with status S and a detail that contains B; nothing is parsed and
\* no response body is returned.
C2_StatusPropagated ==
    \A r \in Requests :
        reply[r].kind = "status" =>
            /\ Done(r)
            /\ outcome[r].status = reply[r].status
            /\ outcome[r].detail = <<"AGI API error: ", reply[r].text>>
            /\ outcome[r].body = NoBody
            /\ attempts[r] = 0

C2_Witness ==
    \E r \in Requests : reply[r].kind = "status" /\ reply[r].status = 401 /\ Done(r)

\* C3: a request makes at most one outbound call, whatever the call comes
\* back with: every request that got a reply, and every request that ended,
\* has issued the call once or never.
C3_SingleAttempt ==
    \A r \in Requests :
        /\ Len(sent[r]) <= 1
        /\ reply[r].kind # "none" => Len(sent[r]) = 1
        /\ pc[r] = "awaiting" => Len(sent[r]) = 1

C3_Witness ==
    \E r \in Requests :
        Done(r) /\ reply[r].kind = "timeout" /\ outcome[r].status = 500
        /\ Len(sent[r]) = 1


(***************************************************************************)
(* What the response is expected to be, read off the parsed document       *)
(***************************************************************************)

Given(d, key) == key \in DOMAIN d.d

\* A number as the float of the response.
AsFloat(v) == IF v.t = "int" THEN PyFloat(v.n * 10, 1) ELSE v

\* The value of key in d when d has it, else the default.
ValueOr(d, key, default) == IF Given(d, key) THEN d.d[key] ELSE default

\* A detection entry with its payload values, and the defaults for the keys
\* it lacks.
ExpectedDetection(d) ==
    IF d.t # "dict" THEN d
    ELSE [title       |-> ValueOr(d, K_title, PyStr(<<>>)),
          description |-> ValueOr(d, K_description, PyStr(<<>>)),
          severity    |-> ValueOr(d, K_severity, PyStr(<<"M", "e", "d", "i", "u", "m">>)),
          indicators  |-> ValueOr(d, K_indicators, PyList(<<>>))]

ExpectedDetections(v) ==
    IF v.t # "list" THEN v
    ELSE PyList([k \in DOMAIN v.items |-> ExpectedDetection(v.items[k])])

\* The response with the payload values of the keys a document has, and
\* the defaults for the keys it lacks.
Expected(d) ==
    [overall_risk_score  |-> AsFloat(ValueOr(d, K_overall_risk_score, PyFloat(0, 1))),
     summary             |-> ValueOr(d, K_summary, PyStr(<<>>)),
     detections          |-> ExpectedDetections(ValueOr(d, K_detections, PyList(<<>>))),
     recommended_actions |-> ValueOr(d, K_recommended_actions, PyList(<<>>)),
     queries_to_run      |-> ValueOr(d, K_queries_to_run, PyList(<<>>))]

IsStrList(v) == v.t = "list" /\ \A k \in DOMAIN v.items : v.items[k].t = "str"

\* Every key the detection has carries a value of the schema's type.
TypedDetection(d) ==
    /\ d.t = "dict"
    /\ \A k \in {K_title, K_description, K_severity} : Given(d, k) => d.d[k].t = "str"
    /\ Given(d, K_indicators) => IsStrList(d.d[K_indicators])

\* Every key the document has carries a value of the schema's type.
TypedWhereGiven(d) ==
    /\ d.t = "dict"
    /\ Given(d, K_overall_risk_score) => d.d[K_overall_risk_score].t \in {"int", "float"}
    /\ Given(d, K_summary) => d.d[K_summary].t = "str"
    /\ Given(d, K_detections) =>
           /\ d.d[K_detections].t = "list"
           /\ \A k \in DOMAIN d.d[K_detections].items :
                  TypedDetection(d.d[K_detections].items[k])
    /\ Given(d, K_recommended_actions) => IsStrList(d.d[K_recommended_actions])
    /\ Given(d, K_queries_to_run) => IsStrList(d.d[K_queries_to_run])

\* A document of the schema: all five keys, every detection with all four.
SchemaDoc(d) ==
    /\ TypedWhereGiven(d)
    /\ TopKeys \subseteq DOMAIN d.d
    /\ \A k \in DOMAIN d.d[K_detections].items :
           DetectionKeys \subseteq DOMAIN d.d[K_detections].items[k].d

\* The request got a 200 whose content is the text.
Got(r, text) ==
    Done(r) /\ reply[r].kind = "content" /\ reply[r].content = PyStr(text)

\* Replies that are exact JSON of the schema.
ExactPayloads == {p \in Payloads : p.wrap \in {"plain", "padded"} /\ SchemaDoc(p.doc)}

FencedJsonPayloads == {p \in Payloads : p.wrap \in FenceJsonWraps}

\* C5: a document inside a code fence tagged "json" gets the response the
\* bare document gets; a document of the schema is returned field for field.
C5_FencedJsonRecovered ==
    \A r \in Requests : \A p \in FencedJsonPayloads :
        Got(r, p.text) =>
            /\ outcome[r] = handle_content(PyStr(Ser(p.doc, Compact)), pydantic).outcome
            /\ SchemaDoc(p.doc) =>
                   outcome[r] = Success(Expected(p.doc)) /\ attempts[r] = 2

C5_Witness ==
    \E r \in Requests :
        /\ Got(r, Wrap("fence_json", Ser(With(K_summary, PyStr(S_json)), Pretty)))
        /\ outcome[r].status = 200
        /\ attempts[r] = 2

\* The document the handler parsed from the content of r.
Parsed(r) == parse_response(reply[r].content.s)

GotDocument(r) ==
    /\ Done(r) /\ reply[r].kind = "content" /\ reply[r].content.t = "str"
    /\ Parsed(r).ok /\ Parsed(r).v.t = "dict"

\* C6 as stated: every payload that parses to an object yields the response
\* with its payload values and the defaults for the keys it lacks.
C6_DefaultsForEveryObject ==
    \A r \in Requests :
        GotDocument(r) =>
            outcome[r].status = 200 /\ outcome[r].body = Expected(Parsed(r).v)

\* C6, amended: a payload that parses to an object whose keys, where given,
\* carry values of the schema's types yields the response with its payload
\* values and the defaults for the keys it lacks.
C6_DefaultsForTypedObject ==
    \A r \in Requests :
        GotDocument(r) /\ TypedWhereGiven(Parsed(r).v) =>
            outcome[r].status = 200 /\ outcome[r].body = Expected(Parsed(r).v)

C6_Witness ==
    \E r \in Requests :
        /\ GotDocument(r)
        /\ ~Given(Parsed(r).v, K_queries_to_run)
        /\ Given(Parsed(r).v, K_detections)
        /\ outcome[r].status = 200
        /\ outcome[r].body.queries_to_run = PyList(<<>>)
        /\ \E k \in DOMAIN outcome[r].body.detections.items :
               /\ ~Given(Parsed(r).v.d[K_detections].items[k], K_severity)
               /\ outcome[r].body.detections.items[k].severity
                      = PyStr(<<"M", "e", "d", "i", "u", "m">>)

\* C7: a content that json.loads rejects as it is and after the one cleanup
\* fails the request with an internal error after exactly two json.loads
\* calls, and no response body is returned.
C7_UnrecoverableFails ==
    \A r \in Requests :
        /\ \A t \in JunkTexts :
               Got(r, t) => outcome[r] = InternalError /\ attempts[r] = 2
        /\ (/\ Done(r) /\ reply[r].kind = "content" /\ reply[r].content.t = "str"
            /\ ~json_loads(reply[r].content.s).ok
            /\ ~json_loads(cleaned(reply[r].content.s)).ok)
           => (/\ outcome[r].status = 500
               /\ outcome[r].body = NoBody
               /\ attempts[r] = 2)

C7_Witness ==
    \E r \in Requests :
        /\ Got(r, SubSeq(Ser(FullDoc, Compact), 1, 40))
        /\ outcome[r].status = 500
        /\ attempts[r] = 2

ResponseFields ==
    {"overall_risk_score", "summary", "detections", "recommended_actions",
     "queries_to_run"}

\* A LogAnalysisResponse with its five fields, each of its declared type.
FullyFormed(b) ==
    /\ DOMAIN b = ResponseFields
    /\ b.overall_risk_score.t = "float"
    /\ b.summary.t = "str"
    /\ b.detections.t = "list"
    /\ \A k \in DOMAIN b.detections.items :
           LET d == b.detections.items[k]
           IN  /\ DOMAIN d = {"title", "description", "severity", "indicators"}
               /\ d.title.t = "str" /\ d.description.t = "str" /\ d.severity.t = "str"
               /\ IsStrList(d.indicators)
    /\ IsStrList(b.recommended_actions)
    /\ IsStrList(b.queries_to_run)

\* C8: a request ends with a fully-formed response and status 200, or with
\* an error status and no response; a content that parses to JSON that is
\* no object ends with an error.
C8_FullResponseOrError ==
    \A r \in Requests :
        /\ ~Done(r) => outcome[r] = NoOutcome
        /\ Done(r) =>
               \/ outcome[r].status = 200 /\ FullyFormed(outcome[r].body)
               \/ /\ outcome[r].status \in 400..599
                  /\ outcome[r].body = NoBody
                  /\ outcome[r].detail # <<>>
        /\ (/\ Done(r) /\ reply[r].kind = "content" /\ reply[r].content.t = "str"
            /\ Parsed(r).ok /\ Parsed(r).v.t # "dict")
           => outcome[r].status = 500

C8_Witness ==
    \E r \in Requests :
        /\ Got(r, Ser(With(K_summary, PyInt(5)), Compact))
        /\ pydantic = 2
        /\ outcome[r].status = 500
        /\ outcome[r].body = NoBody

\* Replies that are a JSON object inside a code fence without a tag.
FencedPayloads == {p \in Payloads : p.wrap = "fence" /\ p.doc.t = "dict"}

\* C9: a JSON object inside a code fence without a tag gets the response the
\* bare object gets, also when its keys or strings contain "json".
C9_CleanupRemovesOnlyWrapping ==
    \A r \in Requests : \A p \in FencedPayloads :
        Got(r, p.text) =>
            outcome[r] = handle_content(PyStr(Ser(p.doc, Compact)), pydantic).outcome

\* The state of one request.
Local(r) == <<pc[r], req[r], sent[r], reply[r], attempts[r], outcome[r]>>

\* Requests with the same body and the same reply end the same way.
SameInputsSameOutcome ==
    \A r1, r2 \in Requests :
        (Done(r1) /\ Done(r2) /\ req[r1] = req[r2] /\ reply[r1] = reply[r2])
            => Local(r1) = Local(r2)

\* A step changes the state of one request and leaves the configuration alone.
OneRequestStep ==
    /\ config' = config
    /\ \E r \in Requests : \A q \in Requests \ {r} : Local(q)' = Local(q)

\* C10: requests are independent in every interleaving: the outcome of a
\* request is decided by its body, the configuration and its own reply; no
\* step of one request changes another; the configuration never changes.
C10_RequestsIndependent == []SameInputsSameOutcome /\ [][OneRequestStep]_vars

C10_Witness ==
    \E r1, r2 \in Requests :
        /\ r1 # r2
        /\ pc[r1] = "awaiting" /\ Done(r2)
        /\ reply[r2].kind = "content" /\ outcome[r2].status = 200

====
